---- MODULE Spec2Model ----
(***************************************************************************)
(* Model of wordle-solve (src/src/main.rs): the Constraint type with its   *)
(* parser, merge and filter predicate, the feedback simulator, the         *)
(* elimination scorer, WordleSolver::best_guess with its first-guess cache *)
(* cell and parallel reduction, and the drivers test, full_test and main.  *)
(*                                                                         *)
(* A char is a one-character string, a Word is a sequence of chars, a map  *)
(* (HashMap<char, usize>) is a function whose DOMAIN is its key set, and   *)
(* Option<char>::None is the string "None".  Option<usize>::None is -1.    *)
(***************************************************************************)
EXTENDS Integers, Sequences, FiniteSets, TLC

VARIABLES
    words,              \* WordleSolver.words: the Vocabulary
    first_guess,        \* content of WordleSolver.first_guess (-1 is None)
    mutex,              \* TRUE while a MutexGuard of first_guess is alive
    cache,              \* the cache file's entry for this Vocabulary's hash
    mode,               \* which branch of main runs: "cli", "test", "full_test"
    pc,                 \* position of the main thread
    constraint,         \* constraint_acc of main / constraint of test
    constraint_string,  \* the row string main parsed last
    guess_constraint,   \* the row merged last (main's constraint, test's guess_constraint)
    rows_done,          \* number of rows of cli.constraint consumed
    answer,             \* test's answer
    result,             \* test's result vector
    iter,               \* test's loop counter, ranging over 1..100
    word_idx,           \* full_test's position in self.words
    histogram,          \* full_test's result map: guess count -> games
    remaining_words,    \* best_guess's remaining_words
    pending,            \* indices the parallel iterator has not scored yet
    pool,               \* partial results of the parallel max reduction
    best,               \* (score, guess, index) returned by max()
    ret,                \* value returned by best_guess
    scored,             \* the running best_guess call invoked the Scorer
    cache_writes,       \* number of stores into the first_guess cell
    ka, kb, kc,         \* three Constraints handed to update
    lhs, rhs,           \* (ka+kb)+kc and ka+(kb+kc)
    mguess, manswer,    \* guess and answer handed to wordle_guess
    k1, k2,             \* K.update(feedback) and feedback.update(K)
    mpc                 \* position of the merge harness

progvars == <<words, first_guess, mutex, cache, mode, pc, constraint,
              constraint_string, guess_constraint, rows_done, answer, result,
              iter, word_idx, histogram, remaining_words, pending, pool, best,
              ret, scored, cache_writes>>

mergevars == <<ka, kb, kc, lhs, rhs, mguess, manswer, k1, k2, mpc>>

vars == <<progvars, mergevars>>

----------------------------------------------------------------------------
(* Bounds and inputs *)

MaxRows == 2

IterationCap == 100

None == "None"

NoIndex == -1

SPACE == " "

GRAY == "-"

YELLOW == "~"

Code ==
    ("a" :> 97) @@ ("b" :> 98) @@ ("c" :> 99) @@ ("d" :> 100) @@ ("e" :> 101)
    @@ ("l" :> 108) @@ ("n" :> 110) @@ ("r" :> 114) @@ ("s" :> 115)
    @@ ("t" :> 116)

VocabProbe ==
    << <<"d","d">>, <<"c","b">>, <<"b","a">>, <<"c","d">>, <<"c","a">>, <<"c","c">> >>

VocabScenario ==
    << <<"c","r","a","n","e">>, <<"t","r","a","c","e">>,
       <<"s","l","a","t","e">>, <<"l","e","a","s","t">> >>

VocabOne == << <<"a","b">> >>

VocabTwo == << <<"a","b">>, <<"b","a">> >>

VocabThree == << <<"a","a">>, <<"a","b">>, <<"b","b">> >>

VocabDup == << <<"a","b">>, <<"b","a">>, <<"a","b">>, <<"b","b">> >>

Vocabularies ==
    {VocabProbe, VocabScenario, VocabOne, VocabTwo, VocabThree, VocabDup}

RowScenario ==
    <<"-","c"," ","-","r"," ","-","a"," ","-","n"," ","~","e">>

RowGrayCD == <<"-","c"," ","-","d">>

RowGrayAB == <<"-","a"," ","-","b">>

RowGrayD == <<"-","d">>

RowYellowA == <<"~","a">>

RowDoubleA == <<"a"," ","-","a">>

RowGreenA == <<"a">>

RowGreenB == <<"b">>

Rows ==
    {RowScenario, RowGrayCD, RowGrayAB, RowGrayD, RowYellowA, RowDoubleA,
     RowGreenA, RowGreenB}

----------------------------------------------------------------------------
(* Helpers for maps and sequences *)

Range(s) == {s[i] : i \in DOMAIN s}

EmptyMap == [c \in {} |-> 0]

MapGet(m, c, default) == IF c \in DOMAIN m THEN m[c] ELSE default

MapInsert(m, c, v) == [x \in (DOMAIN m) \cup {c} |-> IF x = c THEN v ELSE m[x]]

MinOf(x, y) == IF x <= y THEN x ELSE y

MaxOf(x, y) == IF x >= y THEN x ELSE y

----------------------------------------------------------------------------
(* Word *)

char_count(word, c) == Cardinality({i \in DOMAIN word : word[i] = c})

char_frequency(chars) == [c \in Range(chars) |-> char_count(chars, c)]

WordLess(a, b) ==
    \E i \in DOMAIN a :
        /\ i \in DOMAIN b
        /\ Code[a[i]] < Code[b[i]]
        /\ \A j \in 1..(i - 1) : a[j] = b[j]

----------------------------------------------------------------------------
(* Constraint *)

New(size) ==
    [character      |-> [i \in 1..size |-> [is |-> None, is_not |-> {}]],
     min_occurrence |-> EmptyMap,
     max_occurrence |-> EmptyMap]

increment_min_occurrence(self, c) ==
    [self EXCEPT !.min_occurrence = MapInsert(@, c, MapGet(@, c, 0) + 1)]

FromStringStepGrayIgnored(st, c) ==
    IF c = SPACE THEN [st EXCEPT !.i = @ + 1, !.op = "Green"]
    ELSE IF c = GRAY THEN [st EXCEPT !.op = "Gray"]
    ELSE IF c = YELLOW THEN [st EXCEPT !.op = "Yellow"]
    ELSE IF st.op = "Green" THEN
        [st EXCEPT
            !.constraint = increment_min_occurrence(
                [@ EXCEPT !.character[st.i + 1].is = c], c),
            !.count = MapInsert(@, c, MapGet(@, c, 0) + 1)]
    ELSE IF st.op = "Yellow" THEN
        [st EXCEPT
            !.constraint = increment_min_occurrence(
                [@ EXCEPT !.character[st.i + 1].is_not = @ \cup {c}], c),
            !.count = MapInsert(@, c, MapGet(@, c, 0) + 1)]
    ELSE st

FromStringStep(st, c) ==
    IF c = SPACE THEN [st EXCEPT !.i = @ + 1, !.op = "Green"]
    ELSE IF c = GRAY THEN [st EXCEPT !.op = "Gray"]
    ELSE IF c = YELLOW THEN [st EXCEPT !.op = "Yellow"]
    ELSE IF st.op = "Green" THEN
        [st EXCEPT
            !.constraint = increment_min_occurrence(
                [@ EXCEPT !.character[st.i + 1].is = c], c),
            !.count = MapInsert(@, c, MapGet(@, c, 0) + 1)]
    ELSE IF st.op = "Yellow" THEN
        [st EXCEPT
            !.constraint = increment_min_occurrence(
                [@ EXCEPT !.character[st.i + 1].is_not = @ \cup {c}], c),
            !.count = MapInsert(@, c, MapGet(@, c, 0) + 1)]
    ELSE
        [st EXCEPT
            !.constraint.character[st.i + 1].is_not = @ \cup {c},
            !.found_max = @ \cup {c}]

RECURSIVE FromStringLoop(_, _, _)
FromStringLoop(string, k, st) ==
    IF k > Len(string) THEN st
    ELSE FromStringLoop(string, k + 1, FromStringStep(st, string[k]))

from_string(string, size) ==
    LET st == FromStringLoop(string, 1,
                  [constraint |-> New(size), i |-> 0, op |-> "Green",
                   count |-> EmptyMap, found_max |-> {}])
    IN  [st.constraint EXCEPT
            !.max_occurrence =
                [c \in (DOMAIN @) \cup st.found_max |->
                    IF c \in st.found_max THEN MapGet(st.count, c, 0) ELSE @[c]]]

RowFits(string, size) ==
    Cardinality({k \in DOMAIN string : string[k] = SPACE}) < size

update_no_insert(self, other) ==
    [character |->
        [i \in DOMAIN self.character |->
            IF i \in DOMAIN other.character
            THEN IF other.character[i].is = None
                 THEN [is     |-> self.character[i].is,
                       is_not |-> self.character[i].is_not
                                    \cup other.character[i].is_not]
                 ELSE [is     |-> other.character[i].is,
                       is_not |-> self.character[i].is_not]
            ELSE self.character[i]],
     min_occurrence |->
        [c \in DOMAIN self.min_occurrence |->
            IF c \in DOMAIN other.min_occurrence
            THEN MaxOf(self.min_occurrence[c], other.min_occurrence[c])
            ELSE self.min_occurrence[c]],
     max_occurrence |->
        [c \in DOMAIN self.max_occurrence |->
            IF c \in DOMAIN other.max_occurrence
            THEN MinOf(self.max_occurrence[c], other.max_occurrence[c])
            ELSE self.max_occurrence[c]]]

update_replace_is_not(self, other) ==
    [character |->
        [i \in DOMAIN self.character |->
            IF i \in DOMAIN other.character
            THEN IF other.character[i].is = None
                 THEN [is     |-> self.character[i].is,
                       is_not |-> other.character[i].is_not]
                 ELSE [is     |-> other.character[i].is,
                       is_not |-> self.character[i].is_not]
            ELSE self.character[i]],
     min_occurrence |->
        [c \in (DOMAIN self.min_occurrence) \cup (DOMAIN other.min_occurrence) |->
            IF c \notin DOMAIN other.min_occurrence THEN self.min_occurrence[c]
            ELSE IF c \in DOMAIN self.min_occurrence
                 THEN MaxOf(self.min_occurrence[c], other.min_occurrence[c])
                 ELSE other.min_occurrence[c]],
     max_occurrence |->
        [c \in (DOMAIN self.max_occurrence) \cup (DOMAIN other.max_occurrence) |->
            IF c \notin DOMAIN other.max_occurrence THEN self.max_occurrence[c]
            ELSE IF c \in DOMAIN self.max_occurrence
                 THEN MinOf(self.max_occurrence[c], other.max_occurrence[c])
                 ELSE other.max_occurrence[c]]]

update_last_wins(self, other) ==
    [character |->
        [i \in DOMAIN self.character |->
            IF i \in DOMAIN other.character
            THEN IF other.character[i].is = None
                 THEN [is     |-> self.character[i].is,
                       is_not |-> self.character[i].is_not
                                    \cup other.character[i].is_not]
                 ELSE [is     |-> other.character[i].is,
                       is_not |-> self.character[i].is_not]
            ELSE self.character[i]],
     min_occurrence |->
        [c \in (DOMAIN self.min_occurrence) \cup (DOMAIN other.min_occurrence) |->
            IF c \in DOMAIN other.min_occurrence THEN other.min_occurrence[c]
            ELSE self.min_occurrence[c]],
     max_occurrence |->
        [c \in (DOMAIN self.max_occurrence) \cup (DOMAIN other.max_occurrence) |->
            IF c \in DOMAIN other.max_occurrence THEN other.max_occurrence[c]
            ELSE self.max_occurrence[c]]]

update(self, other) ==
    [character |->
        [i \in DOMAIN self.character |->
            IF i \in DOMAIN other.character
            THEN IF other.character[i].is = None
                 THEN [is     |-> self.character[i].is,
                       is_not |-> self.character[i].is_not
                                    \cup other.character[i].is_not]
                 ELSE [is     |-> other.character[i].is,
                       is_not |-> self.character[i].is_not]
            ELSE self.character[i]],
     min_occurrence |->
        [c \in (DOMAIN self.min_occurrence) \cup (DOMAIN other.min_occurrence) |->
            IF c \notin DOMAIN other.min_occurrence THEN self.min_occurrence[c]
            ELSE IF c \in DOMAIN self.min_occurrence
                 THEN MaxOf(self.min_occurrence[c], other.min_occurrence[c])
                 ELSE other.min_occurrence[c]],
     max_occurrence |->
        [c \in (DOMAIN self.max_occurrence) \cup (DOMAIN other.max_occurrence) |->
            IF c \notin DOMAIN other.max_occurrence THEN self.max_occurrence[c]
            ELSE IF c \in DOMAIN self.max_occurrence
                 THEN MinOf(self.max_occurrence[c], other.max_occurrence[c])
                 ELSE other.max_occurrence[c]]]

allows(self, word) ==
    /\ \A key \in DOMAIN self.min_occurrence :
            char_count(word, key) >= self.min_occurrence[key]
    /\ \A key \in DOMAIN self.max_occurrence :
            char_count(word, key) <= self.max_occurrence[key]
    /\ \A i \in (DOMAIN self.character) \cap (DOMAIN word) :
            self.character[i].is = None \/ self.character[i].is = word[i]
    /\ \A i \in (DOMAIN self.character) \cap (DOMAIN word) :
            word[i] \notin self.character[i].is_not

----------------------------------------------------------------------------
(* Feedback simulator, filter and scorer *)

wordle_guess_guess_count(guess, ans) ==
    LET guess_frequency == char_frequency(guess)
    IN  [character |->
            [i \in 1..Len(guess) |->
                IF i \in DOMAIN ans /\ guess[i] = ans[i]
                THEN [is |-> guess[i], is_not |-> {}]
                ELSE IF i \in DOMAIN ans
                     THEN [is |-> None, is_not |-> {guess[i]}]
                     ELSE [is |-> None, is_not |-> {}]],
         min_occurrence |-> guess_frequency,
         max_occurrence |->
            [c \in {x \in DOMAIN guess_frequency :
                        guess_frequency[x] > char_count(ans, x)} |->
                char_count(ans, c)]]

wordle_guess_no_exclusion(guess, ans) ==
    LET guess_frequency == char_frequency(guess)
    IN  [character |->
            [i \in 1..Len(guess) |->
                IF i \in DOMAIN ans /\ guess[i] = ans[i]
                THEN [is |-> guess[i], is_not |-> {}]
                ELSE [is |-> None, is_not |-> {}]],
         min_occurrence |->
            [c \in {x \in DOMAIN guess_frequency :
                        MinOf(guess_frequency[x], char_count(ans, x)) > 0} |->
                MinOf(guess_frequency[c], char_count(ans, c))],
         max_occurrence |-> EmptyMap]

wordle_guess(guess, ans) ==
    LET guess_frequency == char_frequency(guess)
    IN  [character |->
            [i \in 1..Len(guess) |->
                IF i \in DOMAIN ans /\ guess[i] = ans[i]
                THEN [is |-> guess[i], is_not |-> {}]
                ELSE IF i \in DOMAIN ans
                     THEN [is |-> None, is_not |-> {guess[i]}]
                     ELSE [is |-> None, is_not |-> {}]],
         min_occurrence |->
            [c \in {x \in DOMAIN guess_frequency :
                        MinOf(guess_frequency[x], char_count(ans, x)) > 0} |->
                MinOf(guess_frequency[c], char_count(ans, c))],
         max_occurrence |->
            [c \in {x \in DOMAIN guess_frequency :
                        guess_frequency[x] > char_count(ans, x)} |->
                char_count(ans, c)]]

filter_words(c, ws) == SelectSeq(ws, LAMBDA word : allows(c, word))

RECURSIVE SumRemaining(_, _, _, _)
SumRemaining(guess, ws, c, k) ==
    IF k > Len(ws) THEN 0
    ELSE LET answer_constraint == update(wordle_guess(guess, ws[k]), c)
         IN  Cardinality({j \in DOMAIN ws : allows(answer_constraint, ws[j])})
               + SumRemaining(guess, ws, c, k + 1)

score_guess_count_eliminations(guess, ws, c) ==
    Len(ws) * Len(ws) - SumRemaining(guess, ws, c, 1)

ScoredItem(ws, rem, c, index) ==
    <<score_guess_count_eliminations(ws[index + 1], rem, c)
          + (IF allows(c, ws[index + 1]) THEN 1 ELSE 0),
      ws[index + 1], index>>

TupleLess(x, y) ==
    \/ x[1] < y[1]
    \/ x[1] = y[1] /\ WordLess(x[2], y[2])
    \/ x[1] = y[1] /\ x[2] = y[2] /\ x[3] < y[3]

TupleMaxScoreOnly(x, y) == IF x[1] > y[1] THEN x ELSE y

TupleMax(x, y) == IF TupleLess(y, x) THEN x ELSE y

----------------------------------------------------------------------------
(* WordleSolver::best_guess *)

word_length == Len(words[1])

Ok(word) == <<"Ok", word>>

Err == <<"Err", "Error: No words match those constraints.">>

NoReturn == <<"Pending", "">>

DispatchNoPairCase(rem) ==
    IF Len(rem) < 1 THEN Err
    ELSE IF Len(rem) = 1 THEN Ok(rem[1])
    ELSE <<"Score", "">>

DispatchFirstOfVocabulary(rem) ==
    IF Len(rem) < 1 THEN Err
    ELSE IF Len(rem) = 1 THEN Ok(words[1])
    ELSE IF Len(rem) = 2 THEN Ok(rem[1])
    ELSE <<"Score", "">>

Dispatch(rem) ==
    IF Len(rem) < 1 THEN Err
    ELSE IF Len(rem) = 1 THEN Ok(rem[1])
    ELSE IF Len(rem) = 2 THEN Ok(rem[1])
    ELSE <<"Score", "">>

ReadGuardHeldToFunctionEnd == TRUE

ReadGuardAliveAfterBlock == FALSE

BG_Filter ==
    /\ pc = "bg_filter"
    /\ remaining_words' = filter_words(constraint, words)
    /\ pc' = IF Len(remaining_words') = Len(words) THEN "bg_lock_read"
             ELSE "bg_dispatch"
    /\ UNCHANGED <<words, first_guess, mutex, cache, mode, constraint,
                   constraint_string, guess_constraint, rows_done, answer,
                   result, iter, word_idx, histogram, pending, pool, best, ret,
                   scored, cache_writes, mergevars>>

BG_LockRead ==
    /\ pc = "bg_lock_read"
    /\ IF mutex
       THEN pc' = "deadlock" /\ UNCHANGED mutex
       ELSE pc' = "bg_check" /\ mutex' = TRUE
    /\ UNCHANGED <<words, first_guess, cache, mode, constraint,
                   constraint_string, guess_constraint, rows_done, answer,
                   result, iter, word_idx, histogram, remaining_words, pending,
                   pool, best, ret, scored, cache_writes, mergevars>>

BG_CheckCache ==
    /\ pc = "bg_check"
    /\ IF first_guess # NoIndex
       THEN /\ ret' = Ok(words[first_guess + 1])
            /\ mutex' = FALSE
            /\ pc' = "bg_return"
       ELSE /\ mutex' = ReadGuardAliveAfterBlock
            /\ pc' = "bg_dispatch"
            /\ UNCHANGED ret
    /\ UNCHANGED <<words, first_guess, cache, mode, constraint,
                   constraint_string, guess_constraint, rows_done, answer,
                   result, iter, word_idx, histogram, remaining_words, pending,
                   pool, best, scored, cache_writes, mergevars>>

BG_Dispatch ==
    /\ pc = "bg_dispatch"
    /\ IF Dispatch(remaining_words)[1] = "Score"
       THEN /\ pending' = 0..(Len(words) - 1)
            /\ pool' = {}
            /\ pc' = "bg_scoring"
            /\ UNCHANGED ret
       ELSE /\ ret' = Dispatch(remaining_words)
            /\ pc' = "bg_return"
            /\ UNCHANGED <<pending, pool>>
    /\ UNCHANGED <<words, first_guess, mutex, cache, mode, constraint,
                   constraint_string, guess_constraint, rows_done, answer,
                   result, iter, word_idx, histogram, remaining_words, best,
                   scored, cache_writes, mergevars>>

BG_Score(index) ==
    /\ pc = "bg_scoring"
    /\ index \in pending
    /\ pending' = pending \ {index}
    /\ pool' = pool \cup {ScoredItem(words, remaining_words, constraint, index)}
    /\ scored' = TRUE
    /\ UNCHANGED <<words, first_guess, mutex, cache, mode, pc, constraint,
                   constraint_string, guess_constraint, rows_done, answer,
                   result, iter, word_idx, histogram, remaining_words, best,
                   ret, cache_writes, mergevars>>

BG_Reduce(x, y) ==
    /\ pc = "bg_scoring"
    /\ x \in pool /\ y \in pool /\ x # y
    /\ pool' = (pool \ {x, y}) \cup {TupleMax(x, y)}
    /\ UNCHANGED <<words, first_guess, mutex, cache, mode, pc, constraint,
                   constraint_string, guess_constraint, rows_done, answer,
                   result, iter, word_idx, histogram, remaining_words, pending,
                   best, ret, scored, cache_writes, mergevars>>

BG_Max ==
    /\ pc = "bg_scoring"
    /\ pending = {}
    /\ Cardinality(pool) = 1
    /\ \E x \in pool :
        /\ best' = x
        /\ IF Len(remaining_words) = Len(words)
           THEN pc' = "bg_lock_write" /\ UNCHANGED ret
           ELSE pc' = "bg_return" /\ ret' = Ok(x[2])
    /\ UNCHANGED <<words, first_guess, mutex, cache, mode, constraint,
                   constraint_string, guess_constraint, rows_done, answer,
                   result, iter, word_idx, histogram, remaining_words, pending,
                   pool, scored, cache_writes, mergevars>>

BG_LockWrite ==
    /\ pc = "bg_lock_write"
    /\ IF mutex
       THEN pc' = "deadlock" /\ UNCHANGED mutex
       ELSE pc' = "bg_write" /\ mutex' = TRUE
    /\ UNCHANGED <<words, first_guess, cache, mode, constraint,
                   constraint_string, guess_constraint, rows_done, answer,
                   result, iter, word_idx, histogram, remaining_words, pending,
                   pool, best, ret, scored, cache_writes, mergevars>>

BG_WriteCache ==
    /\ pc = "bg_write"
    /\ first_guess' = best[3]
    /\ cache_writes' = cache_writes + 1
    /\ mutex' = FALSE
    /\ ret' = Ok(best[2])
    /\ pc' = "bg_return"
    /\ UNCHANGED <<words, cache, mode, constraint, constraint_string,
                   guess_constraint, rows_done, answer, result, iter, word_idx,
                   histogram, remaining_words, pending, pool, best, scored,
                   mergevars>>

----------------------------------------------------------------------------
(* WordleSolver::test and WordleSolver::full_test *)

TestIter ==
    /\ pc = "test_loop"
    /\ IF iter < IterationCap
       THEN pc' = "bg_filter" /\ scored' = FALSE
       ELSE pc' = "test_done" /\ UNCHANGED scored
    /\ UNCHANGED <<words, first_guess, mutex, cache, mode, constraint,
                   constraint_string, guess_constraint, rows_done, answer,
                   result, iter, word_idx, histogram, remaining_words, pending,
                   pool, best, ret, cache_writes, mergevars>>

TestGuess ==
    /\ pc = "bg_return"
    /\ mode \in {"test", "full_test"}
    /\ IF ret[1] = "Err"
       THEN /\ pc' = "panicked"
            /\ UNCHANGED <<result, guess_constraint, constraint, iter>>
       ELSE /\ result' = Append(result, ret[2])
            /\ IF ret[2] = answer
               THEN /\ pc' = "test_done"
                    /\ UNCHANGED <<guess_constraint, constraint, iter>>
               ELSE /\ guess_constraint' = wordle_guess(ret[2], answer)
                    /\ constraint' = update(constraint, guess_constraint')
                    /\ iter' = iter + 1
                    /\ pc' = "test_loop"
    /\ UNCHANGED <<words, first_guess, mutex, cache, mode, constraint_string,
                   rows_done, answer, word_idx, histogram, remaining_words,
                   pending, pool, best, ret, scored, cache_writes, mergevars>>

FullTestNext ==
    /\ pc = "ft_loop"
    /\ IF word_idx < Len(words)
       THEN /\ answer' = words[word_idx + 1]
            /\ result' = <<>>
            /\ constraint' = New(word_length)
            /\ iter' = 1
            /\ pc' = "test_loop"
       ELSE /\ pc' = "done"
            /\ UNCHANGED <<answer, result, constraint, iter>>
    /\ UNCHANGED <<words, first_guess, mutex, cache, mode, constraint_string,
                   guess_constraint, rows_done, word_idx, histogram,
                   remaining_words, pending, pool, best, ret, scored,
                   cache_writes, mergevars>>

FullTestRecord ==
    /\ pc = "test_done"
    /\ mode = "full_test"
    /\ histogram' = MapInsert(histogram, Len(result),
                              MapGet(histogram, Len(result), 0) + 1)
    /\ word_idx' = word_idx + 1
    /\ pc' = "ft_loop"
    /\ UNCHANGED <<words, first_guess, mutex, cache, mode, constraint,
                   constraint_string, guess_constraint, rows_done, answer,
                   result, iter, remaining_words, pending, pool, best, ret,
                   scored, cache_writes, mergevars>>

----------------------------------------------------------------------------
(* main *)

MainRow(row) ==
    /\ pc = "main"
    /\ mode = "cli"
    /\ rows_done < MaxRows
    /\ RowFits(row, word_length)
    /\ constraint_string' = row
    /\ guess_constraint' = from_string(row, word_length)
    /\ constraint' = update(constraint, guess_constraint')
    /\ rows_done' = rows_done + 1
    /\ UNCHANGED <<words, first_guess, mutex, cache, mode, pc, answer, result,
                   iter, word_idx, histogram, remaining_words, pending, pool,
                   best, ret, scored, cache_writes, mergevars>>

MainBestGuess ==
    /\ pc = "main"
    /\ mode = "cli"
    /\ pc' = "bg_filter"
    /\ scored' = FALSE
    /\ UNCHANGED <<words, first_guess, mutex, cache, mode, constraint,
                   constraint_string, guess_constraint, rows_done, answer,
                   result, iter, word_idx, histogram, remaining_words, pending,
                   pool, best, ret, cache_writes, mergevars>>

MainPrint ==
    /\ pc = "bg_return"
    /\ mode = "cli"
    /\ pc' = IF ret[1] = "Err" THEN "panicked" ELSE "persist"
    /\ UNCHANGED <<words, first_guess, mutex, cache, mode, constraint,
                   constraint_string, guess_constraint, rows_done, answer,
                   result, iter, word_idx, histogram, remaining_words, pending,
                   pool, best, ret, scored, cache_writes, mergevars>>

MainTest(target) ==
    /\ pc = "main"
    /\ mode = "test"
    /\ answer' = target
    /\ result' = <<>>
    /\ constraint' = New(word_length)
    /\ iter' = 1
    /\ pc' = "test_loop"
    /\ UNCHANGED <<words, first_guess, mutex, cache, mode, constraint_string,
                   guess_constraint, rows_done, word_idx, histogram,
                   remaining_words, pending, pool, best, ret, scored,
                   cache_writes, mergevars>>

MainAfterTest ==
    /\ pc = "test_done"
    /\ mode = "test"
    /\ pc' = "persist"
    /\ UNCHANGED <<words, first_guess, mutex, cache, mode, constraint,
                   constraint_string, guess_constraint, rows_done, answer,
                   result, iter, word_idx, histogram, remaining_words, pending,
                   pool, best, ret, scored, cache_writes, mergevars>>

MainFullTest ==
    /\ pc = "main"
    /\ mode = "full_test"
    /\ word_idx' = 0
    /\ histogram' = EmptyMap
    /\ pc' = "ft_loop"
    /\ UNCHANGED <<words, first_guess, mutex, cache, mode, constraint,
                   constraint_string, guess_constraint, rows_done, answer,
                   result, iter, remaining_words, pending, pool, best, ret,
                   scored, cache_writes, mergevars>>

MainPersist ==
    /\ pc = "persist"
    /\ IF mutex
       THEN pc' = "deadlock" /\ UNCHANGED cache
       ELSE /\ cache' = IF first_guess # NoIndex THEN first_guess ELSE cache
            /\ pc' = "done"
    /\ UNCHANGED <<words, first_guess, mutex, mode, constraint,
                   constraint_string, guess_constraint, rows_done, answer,
                   result, iter, word_idx, histogram, remaining_words, pending,
                   pool, best, ret, scored, cache_writes, mergevars>>

----------------------------------------------------------------------------
(* The program *)

MergeIdle ==
    /\ ka = New(0) /\ kb = New(0) /\ kc = New(0)
    /\ lhs = New(0) /\ rhs = New(0)
    /\ mguess = <<>> /\ manswer = <<>>
    /\ k1 = New(0) /\ k2 = New(0)
    /\ mpc = "off"

Init ==
    /\ words \in Vocabularies
    /\ first_guess \in {NoIndex} \cup (0..(Len(words) - 1))
    /\ cache = first_guess
    /\ mutex = FALSE
    /\ mode \in {"cli", "test", "full_test"}
    /\ pc = "main"
    /\ constraint = New(word_length)
    /\ constraint_string = <<>>
    /\ guess_constraint = New(word_length)
    /\ rows_done = 0
    /\ answer = <<>>
    /\ result = <<>>
    /\ iter = 1
    /\ word_idx = 0
    /\ histogram = EmptyMap
    /\ remaining_words = <<>>
    /\ pending = {}
    /\ pool = {}
    /\ best = <<0, <<>>, 0>>
    /\ ret = NoReturn
    /\ scored = FALSE
    /\ cache_writes = 0
    /\ MergeIdle

Next ==
    \/ \E row \in Rows : MainRow(row)
    \/ MainBestGuess
    \/ MainPrint
    \/ \E target \in Range(words) : MainTest(target)
    \/ MainAfterTest
    \/ MainFullTest
    \/ MainPersist
    \/ TestIter
    \/ TestGuess
    \/ FullTestNext
    \/ FullTestRecord
    \/ BG_Filter
    \/ BG_LockRead
    \/ BG_CheckCache
    \/ BG_Dispatch
    \/ \E index \in pending : BG_Score(index)
    \/ \E x \in pool : \E y \in pool : BG_Reduce(x, y)
    \/ BG_Max
    \/ BG_LockWrite
    \/ BG_WriteCache

Spec == Init /\ [][Next]_vars

----------------------------------------------------------------------------
(* The pure functions update, wordle_guess and allows on drawn inputs:      *)
(* ka, kb and kc are merged in both groupings, and the feedback of a guess  *)
(* against an answer the merged Constraint allows is merged with it in both *)
(* directions (test: constraint.update(&guess_constraint), scorer:          *)
(* answer_constraint.update(&constraint)).                                  *)

MergeSize == Len(VocabThree[1])

MergeWords == Range(VocabThree) \cup Range(VocabDup)

BaseConstraints ==
    {New(MergeSize)}
    \cup {from_string(row, MergeSize) : row \in {r \in Rows : RowFits(r, MergeSize)}}
    \cup {wordle_guess(g, t) : g \in MergeWords, t \in MergeWords}

ProgIdle ==
    /\ words = VocabThree
    /\ first_guess = NoIndex
    /\ cache = NoIndex
    /\ mutex = FALSE
    /\ mode = "off"
    /\ pc = "off"
    /\ constraint = New(MergeSize)
    /\ constraint_string = <<>>
    /\ guess_constraint = New(MergeSize)
    /\ rows_done = 0
    /\ answer = <<>>
    /\ result = <<>>
    /\ iter = 1
    /\ word_idx = 0
    /\ histogram = EmptyMap
    /\ remaining_words = <<>>
    /\ pending = {}
    /\ pool = {}
    /\ best = <<0, <<>>, 0>>
    /\ ret = NoReturn
    /\ scored = FALSE
    /\ cache_writes = 0

MergeInit ==
    /\ ProgIdle
    /\ ka \in BaseConstraints
    /\ kb \in BaseConstraints
    /\ kc \in BaseConstraints
    /\ lhs = New(MergeSize)
    /\ rhs = New(MergeSize)
    /\ mguess = <<>>
    /\ manswer = <<>>
    /\ k1 = New(MergeSize)
    /\ k2 = New(MergeSize)
    /\ mpc = "start"

MergeLeft ==
    /\ mpc = "start"
    /\ lhs' = update(update(ka, kb), kc)
    /\ mpc' = "left"
    /\ UNCHANGED <<progvars, ka, kb, kc, rhs, mguess, manswer, k1, k2>>

MergeRight ==
    /\ mpc = "left"
    /\ rhs' = update(ka, update(kb, kc))
    /\ mpc' = "both"
    /\ UNCHANGED <<progvars, ka, kb, kc, lhs, mguess, manswer, k1, k2>>

MergeFeedback(g, t) ==
    /\ mpc = "both"
    /\ allows(lhs, t)
    /\ mguess' = g
    /\ manswer' = t
    /\ k1' = update(lhs, wordle_guess(g, t))
    /\ k2' = update(wordle_guess(g, t), lhs)
    /\ mpc' = "fed"
    /\ UNCHANGED <<progvars, ka, kb, kc, lhs, rhs>>

MergeNext ==
    \/ MergeLeft
    \/ MergeRight
    \/ \E g \in MergeWords : \E t \in MergeWords : MergeFeedback(g, t)

SpecMerge == MergeInit /\ [][MergeNext]_vars

----------------------------------------------------------------------------
(* Properties *)

Candidates(c) == {i \in DOMAIN words : allows(c, words[i])}

FirstCandidate(c) ==
    words[CHOOSE i \in Candidates(c) : \A j \in Candidates(c) : i <= j]

MergeStep ==
    \/ \E row \in Rows : MainRow(row)
    \/ TestGuess /\ pc' = "test_loop"

\* C1: the feedback of guess against answer, merged with a Constraint K that
\* allows answer, in either direction (K.update(feedback) and
\* feedback.update(K)), gives a Constraint that still allows answer.
FeedbackSound ==
    mpc = "fed" => allows(k1, manswer) /\ allows(k2, manswer)

FeedbackSoundWitness ==
    /\ mpc = "fed"
    /\ mguess # manswer
    /\ lhs # New(MergeSize)
    /\ k1 # lhs

ScenarioAsStated ==
    /\ (words = VocabScenario /\ mode = "cli" /\ pc = "main" /\ rows_done = 0)
            => Len(filter_words(constraint, words)) = 4
    /\ (words = VocabScenario /\ rows_done = 1 /\ constraint_string = RowScenario)
            => /\ words[3] \in Range(filter_words(constraint, words))
               /\ words[4] \in Range(filter_words(constraint, words))
               /\ words[1] \notin Range(filter_words(constraint, words))
               /\ words[2] \notin Range(filter_words(constraint, words))

\* C3 amended: on that Vocabulary the empty Constraint leaves 4 candidates,
\* and after the row "-c -r -a -n ~e" the filter rejects all four words:
\* slate and least have the gray a at its own position and exceed
\* max_occurrence[a] = 0, and slate also has the yellow e at its position.
ScenarioAmended ==
    /\ (words = VocabScenario /\ mode = "cli" /\ pc = "main" /\ rows_done = 0)
            => Len(filter_words(constraint, words)) = 4
    /\ (words = VocabScenario /\ rows_done = 1 /\ constraint_string = RowScenario)
            => /\ filter_words(constraint, words) = <<>>
               /\ "a" \in constraint.character[3].is_not
               /\ "e" \in constraint.character[5].is_not
               /\ "a" \in DOMAIN constraint.max_occurrence
               /\ constraint.max_occurrence["a"] = 0

ScenarioWitness ==
    /\ words = VocabScenario
    /\ rows_done = 1
    /\ constraint_string = RowScenario
    /\ pc = "bg_return"

\* C4 as stated: merging kb and then kc into ka gives the same Constraint as
\* merging kc into kb and the result into ka.
MergeAssociative ==
    mpc \in {"both", "fed"} => lhs = rhs

\* C4 amended: the two groupings give the same min_occurrence and
\* max_occurrence maps and the same exact letter at every position; the
\* excluded sets are the same at every position where kb and kc both have an
\* exact letter or both have none; where exactly one of them has an exact
\* letter, the second grouping holds only ka's excluded letters and the first
\* holds ka's and those of the one that has no exact letter.
MergeAssociativeAmended ==
    mpc \in {"both", "fed"} =>
        /\ lhs.min_occurrence = rhs.min_occurrence
        /\ lhs.max_occurrence = rhs.max_occurrence
        /\ DOMAIN lhs.character = DOMAIN rhs.character
        /\ \A i \in DOMAIN lhs.character :
            /\ lhs.character[i].is = rhs.character[i].is
            /\ IF (kb.character[i].is = None) = (kc.character[i].is = None)
               THEN lhs.character[i].is_not = rhs.character[i].is_not
               ELSE /\ rhs.character[i].is_not = ka.character[i].is_not
                    /\ lhs.character[i].is_not =
                            ka.character[i].is_not
                            \cup (IF kb.character[i].is = None
                                  THEN kb.character[i].is_not
                                  ELSE kc.character[i].is_not)

MergeAssociativeWitness ==
    /\ mpc = "both"
    /\ ka.min_occurrence # EmptyMap
    /\ kb.max_occurrence # EmptyMap
    /\ \E i \in DOMAIN kb.character :
        /\ kb.character[i].is # None
        /\ kc.character[i].is = None
        /\ ~(kc.character[i].is_not \subseteq ka.character[i].is_not)

RowAgrees(k, row) ==
    \A i \in (DOMAIN k.character) \cap (DOMAIN row.character) :
        \/ row.character[i].is = None
        \/ k.character[i].is = None
        \/ row.character[i].is = k.character[i].is

\* C5 as stated: after every merge of a row into the running Constraint,
\* every Vocabulary word the Constraint allows was allowed before the merge.
NeverLosesPower ==
    [][MergeStep => Candidates(constraint') \subseteq Candidates(constraint)]_vars

\* C5 amended: the same, for every merged row whose exact letters agree with
\* the exact letters the running Constraint already holds at those positions
\* (every row of a simulated game, and rows that describe one hidden answer).
NeverLosesPowerAmended ==
    [][(MergeStep /\ RowAgrees(constraint, guess_constraint'))
            => Candidates(constraint') \subseteq Candidates(constraint)]_vars

NeverLosesPowerWitness ==
    /\ mode = "cli"
    /\ rows_done = 2
    /\ \E i \in DOMAIN constraint.character :
        /\ guess_constraint.character[i].is # None
        /\ constraint.character[i].is_not # {}
    /\ Candidates(constraint) # {}
    /\ Candidates(constraint) # DOMAIN words

\* C6: across every merge a recorded min_occurrence[c] stays present and
\* does not decrease, a recorded max_occurrence[c] stays present and does not
\* increase, and after the merge each is the maximum, respectively minimum,
\* of the running and the incoming value (the other one when one is absent).
OccurrenceRatchet ==
    [][MergeStep =>
        /\ \A c \in DOMAIN constraint.min_occurrence :
            /\ c \in DOMAIN constraint'.min_occurrence
            /\ constraint'.min_occurrence[c] >= constraint.min_occurrence[c]
        /\ \A c \in DOMAIN constraint.max_occurrence :
            /\ c \in DOMAIN constraint'.max_occurrence
            /\ constraint'.max_occurrence[c] <= constraint.max_occurrence[c]
        /\ DOMAIN constraint'.min_occurrence =
                (DOMAIN constraint.min_occurrence)
                    \cup (DOMAIN guess_constraint'.min_occurrence)
        /\ DOMAIN constraint'.max_occurrence =
                (DOMAIN constraint.max_occurrence)
                    \cup (DOMAIN guess_constraint'.max_occurrence)
        /\ \A c \in DOMAIN constraint'.min_occurrence :
            /\ \/ MapGet(constraint.min_occurrence, c, 0)
                        = constraint'.min_occurrence[c]
               \/ MapGet(guess_constraint'.min_occurrence, c, 0)
                        = constraint'.min_occurrence[c]
            /\ MapGet(constraint.min_occurrence, c, 0)
                        <= constraint'.min_occurrence[c]
            /\ MapGet(guess_constraint'.min_occurrence, c, 0)
                        <= constraint'.min_occurrence[c]
        /\ \A c \in DOMAIN constraint'.max_occurrence :
            LET here == constraint'.max_occurrence[c]
            IN  /\ \/ MapGet(constraint.max_occurrence, c, here + 1) = here
                   \/ MapGet(guess_constraint'.max_occurrence, c, here + 1) = here
                /\ MapGet(constraint.max_occurrence, c, here) >= here
                /\ MapGet(guess_constraint'.max_occurrence, c, here) >= here
    ]_vars

OccurrenceRatchetWitness ==
    /\ rows_done = 2
    /\ \E c \in (DOMAIN constraint.max_occurrence)
                    \cap (DOMAIN guess_constraint.max_occurrence) :
            constraint.max_occurrence[c] < guess_constraint.max_occurrence[c]
    /\ \E c \in DOMAIN constraint.min_occurrence :
            c \notin DOMAIN guess_constraint.min_occurrence

\* C7: when the cached first guess is not returned, a candidate set of at
\* most two words is decided in the dispatch step itself: the error for no
\* candidate, else the first candidate in Vocabulary order, with no scoring
\* and no store into the first-guess cell.
SmallSetDispatch ==
    [][(pc = "bg_dispatch" /\ Cardinality(Candidates(constraint)) <= 2) =>
        /\ pc' = "bg_return"
        /\ scored' = FALSE
        /\ pending' = pending /\ pool' = pool
        /\ first_guess' = first_guess
        /\ cache_writes' = cache_writes
        /\ IF Candidates(constraint) = {}
           THEN ret'[1] = "Err"
           ELSE ret'[1] = "Ok" /\ ret'[2] = FirstCandidate(constraint)
    ]_vars

SmallSetDispatchWitness ==
    /\ pc = "bg_return"
    /\ Cardinality(Candidates(constraint)) = 2
    /\ Len(words) > 2
    /\ ret[1] = "Ok"
    /\ ~scored

Items(c) ==
    {ScoredItem(words, filter_words(c, words), c, i) : i \in 0..(Len(words) - 1)}

\* C8: the first-guess cell is stored into at most once, only after a full
\* scoring whose candidate set was the whole Vocabulary and only when it was
\* empty since the start of the process; its mutex is never requested while
\* held and is free during the scoring phase; a call whose candidate set is
\* the whole Vocabulary and that finds an index in the cell returns the word
\* at that index without scoring.
CacheDiscipline ==
    /\ [](/\ cache_writes <= 1
          /\ pc # "deadlock"
          /\ (pc = "bg_scoring" => ~mutex)
          /\ (mutex => pc \in {"bg_check", "bg_write"})
          /\ ((pc = "bg_return" /\ Candidates(constraint) = DOMAIN words
                  /\ first_guess # NoIndex /\ ~scored)
                => ret = Ok(words[first_guess + 1]))
          /\ ((pc = "bg_return" /\ Candidates(constraint) = DOMAIN words /\ scored)
                => cache = NoIndex /\ cache_writes = 1 /\ first_guess = best[3]))
    /\ [][(first_guess' # first_guess \/ cache_writes' # cache_writes) =>
            /\ pc = "bg_write"
            /\ mutex
            /\ scored
            /\ pending = {}
            /\ first_guess = NoIndex
            /\ cache_writes = 0
            /\ Candidates(constraint) = DOMAIN words
            /\ first_guess' \in 0..(Len(words) - 1)]_vars
    /\ [][(pc = "bg_check" /\ first_guess # NoIndex) =>
            /\ pc' = "bg_return"
            /\ ~scored'
            /\ ret' = Ok(words[first_guess + 1])]_vars

CacheDisciplineWitness ==
    /\ mode = "full_test"
    /\ word_idx >= 1
    /\ cache_writes = 1
    /\ pc = "bg_return"
    /\ ~scored
    /\ Candidates(constraint) = DOMAIN words

\* C9: a best_guess call that scored returns the Vocabulary word whose
\* (score plus bonus, word, index) is the greatest of all Vocabulary words,
\* so its score plus bonus is at least that of every word, and this word and
\* index are the same whatever the order of scoring and reduction.
MaxSelected ==
    (pc = "bg_return" /\ scored) =>
        /\ best \in Items(constraint)
        /\ \A x \in Items(constraint) : x[1] <= best[1]
        /\ \A x \in Items(constraint) : x = best \/ TupleLess(x, best)
        /\ ret = Ok(words[best[3] + 1])
        /\ ret[2] = best[2]
        /\ (Candidates(constraint) = DOMAIN words => first_guess = best[3])

MaxSelectedWitness ==
    /\ pc = "bg_return"
    /\ scored
    /\ \E x \in Items(constraint) : x # best /\ x[1] = best[1]
    /\ Candidates(constraint) = DOMAIN words

\* C10: in a simulated game against a Vocabulary word the target is always a
\* candidate, best_guess never fails, every guess that is not the target
\* leaves strictly fewer candidates than there were before it, and the game
\* takes at most as many guesses as the Vocabulary has words.
StrictProgress ==
    /\ [](answer # <<>> =>
            /\ pc # "panicked"
            /\ \E i \in Candidates(constraint) : words[i] = answer
            /\ Len(result) <= Len(words))
    /\ [][(TestGuess /\ pc' = "test_loop") =>
            Cardinality(Candidates(constraint'))
                < Cardinality(Candidates(constraint))]_vars

StrictProgressWitness ==
    /\ pc = "test_loop"
    /\ scored
    /\ Len(result) >= 2
    /\ result[Len(result)] \notin Range(remaining_words)
    /\ result[Len(result)] # answer

====
